---- MODULE Spec2Model ----
(***************************************************************************)
(* A model of topicmodels/LDA/gibbs.py: the Python classes LDAGibbs and    *)
(* QueryGibbs, which drive the compiled samplers of                        *)
(* topicmodels.samplers.samplers_lda.  The Python classes are translated   *)
(* from gibbs.py; the compiled samplers (sampler, sampler_query, tt_comp,  *)
(* dt_comp) are not part of gibbs.py and are modelled from their           *)
(* description: one pass over the tokens per iteration, the assignment     *)
(* vector that is handed in is updated in place, one snapshot is retained  *)
(* every `thinning` iterations after `burnin`.                             *)
(*                                                                         *)
(* Python arrays are modelled as sequences: position p of a Python array   *)
(* is index p+1 of the sequence.  Topic labels and vocabulary indices keep *)
(* their Python values (0..K-1, 0..V-1).  The float hyperparameters alpha  *)
(* and beta are modelled by integers; an estimate (n + alpha) / (m + ...)  *)
(* is kept as the pair <<numerator, denominator>>.                         *)
(***************************************************************************)
EXTENDS Integers, Sequences, FiniteSets, TLC

(***************************************************************************)
(* Construction arguments and the bounds of the model.                     *)
(***************************************************************************)
\* LDAGibbs(docs, K): the number of topics
K == 2

\* the corpora a model is built from: one document of one token, and two
\* documents with two distinct tokens
SmallDocs == << <<"a">> >>
ChainDocs == << <<"a">>, <<"b">> >>

\* the archive never grows beyond MaxArchive snapshots (MaxChainArchive in
\* the runs on ChainDocs)
MaxArchive == 2
MaxChainArchive == 1

Topics == 0..(K - 1)

(***************************************************************************)
(* Python helpers.                                                         *)
(***************************************************************************)
Min(a, b) == IF a < b THEN a ELSE b
Max(a, b) == IF a > b THEN a ELSE b

\* itertools.chain(*docs)
RECURSIVE Chain(_)
Chain(ds) == IF ds = << >> THEN << >> ELSE Head(ds) \o Chain(Tail(ds))

\* a[p] for a Python integer index p on an axis of size n: the position
\* (0-based) that is read, or -1 when Python raises IndexError
PyIndex(p, n) ==
    IF p >= 0 /\ p < n THEN p
    ELSE IF p < 0 /\ p + n >= 0 THEN p + n
    ELSE -1

\* range(n)[start:] : the list of positions a Python slice keeps
PySliceFrom(n, start) ==
    LET lo == IF start < 0 THEN Max(n + start, 0) ELSE Min(start, n)
    IN  [j \in 1..(n - lo) |-> lo + j - 1]

\* np.take(a, index, axis) in the default mode 'raise': TRUE when every
\* position of index is accepted (negative positions count from the end)
TakeOk(a, index) ==
    \A j \in 1..Len(index) : PyIndex(index[j], Len(a)) >= 0

\* np.take(a, index, axis): a new array holding the selected entries (an
\* empty index selects an empty array)
Take(a, index) ==
    [j \in 1..Len(index) |-> a[PyIndex(index[j], Len(a)) + 1]]

(***************************************************************************)
(* The state.                                                              *)
(***************************************************************************)
VARIABLES
    docs,            \* self.docs
    tokens,          \* self.tokens
    docid,           \* self.docid
    token_key,       \* self.token_key
    topic_seed,      \* self.topic_seed
    alpha,           \* self.alpha
    beta,            \* self.beta
    has_archive,     \* hasattr(self, 'sampled_topics')
    sampled_topics,  \* self.sampled_topics: the rows of the archive
    tt,              \* self.tt: one topic-term slice per sample
    dt,              \* self.dt: one document-topic slice per sample
    samples,         \* self.samples
    pc,              \* "idle", or "sampling" inside samplers_lda.sampler
    call,            \* the arguments of the sample call in progress
    target,          \* the array the sampler was handed: 0 the local copy
                     \* seed, r >= 1 row r of sampled_topics (a view),
                     \* -1 self.topic_seed itself
    chain,           \* the sampler's state: the assignment vector it was
                     \* handed and its count matrices
    iter,            \* the iteration in progress, counted from 1
    pos,             \* the token updates completed in this iteration
    out,             \* the snapshots the sampler has retained
    pre,             \* the archive as it was when the call began
    last,            \* the last call: its name and its outcome
    raised,          \* some call has ended in an error
    cap,             \* the bound on the length of the archive
    q_docs,          \* QueryGibbs: self.docs
    q_tokens,        \* QueryGibbs: self.tokens
    q_docid,         \* QueryGibbs: self.docid
    q_tt,            \* QueryGibbs: self.tt, one slice per training sample
    q_alpha,         \* QueryGibbs: self.alpha
    q_topic_seed,    \* QueryGibbs: self.topic_seed, with its dimensions
    q_sampled_topics, \* QueryGibbs: self.sampled_topics
    q_dt,            \* QueryGibbs: self.dt
    q_pc,            \* "new", "idle", "chain" inside sampler_query
    q_s,             \* the training sample of the loop of query, from 0
    q_n,             \* the argument query_samples of query
    q_left,          \* the iterations sampler_query has still to run
    q_pos,           \* the token updates completed in this iteration
    q_ndk,           \* the document-topic counts of sampler_query
    q_seed0,         \* self.topic_seed as it was when query was called
    q_start,         \* per chain started: the vector it was handed
    q_last           \* the outcome of the last call of the query model

corpus == <<docs, tokens, docid, token_key>>
priors == <<alpha, beta>>
archive == <<has_archive, sampled_topics, tt, dt, samples>>
frame == <<pc, call, target, chain, iter, pos, out, pre>>
lda == <<corpus, topic_seed, priors, archive, frame, last, raised, cap>>
q_model == <<q_docs, q_tokens, q_docid, q_tt, q_alpha>>
q_run == <<q_pc, q_s, q_n, q_left, q_pos, q_ndk, q_seed0, q_start>>
qry == <<q_model, q_topic_seed, q_sampled_topics, q_dt, q_run, q_last>>
vars == <<lda, qry>>

(***************************************************************************)
(* The corpus representation, LDAGibbs.__init__.                           *)
(***************************************************************************)
\* doc_list = list(itertools.chain(*docs))
DocList(ds) == Chain(ds)

\* set(doc_list)
VocabOf(ds) == {DocList(ds)[i] : i \in 1..Len(DocList(ds))}

D == Len(docs)
V == Cardinality(VocabOf(docs))
N == Len(DocList(docs))

\* enumerate(set(doc_list)): some bijection between the tokens and 0..V-1
TokenKeys(ds) ==
    {f \in [VocabOf(ds) -> 0..(Cardinality(VocabOf(ds)) - 1)] :
        \A x, y \in VocabOf(ds) : f[x] = f[y] => x = y}

\* self.tokens
TokensOf(ds, key) == [i \in 1..Len(DocList(ds)) |-> key[DocList(ds)[i]]]

\* self.docid: [[i]*len(d) for i, d in enumerate(docs)], chained
RECURSIVE DocIds(_, _)
DocIds(ds, i) ==
    IF ds = << >> THEN << >>
    ELSE [j \in 1..Len(Head(ds)) |-> i] \o DocIds(Tail(ds), i + 1)

(***************************************************************************)
(* The compiled samplers, samplers_lda.  Their code is not in gibbs.py;    *)
(* they are modelled from the description of the sampling engine.          *)
(***************************************************************************)
\* n_dk[d][k]: the tokens of document d that carry topic k
CountDK(did, nd, z) ==
    [d \in 0..(nd - 1) |->
        [k \in Topics |->
            Cardinality({i \in 1..Len(z) : did[i] = d /\ z[i] = k})]]

\* n_kw[k][w]: the occurrences of vocabulary item w that carry topic k
CountKW(z) ==
    [k \in Topics |->
        [w \in 0..(V - 1) |->
            Cardinality({i \in 1..N : tokens[i] = w /\ z[i] = k})]]

\* n_k[k]: the tokens that carry topic k
CountK(z) == [k \in Topics |-> Cardinality({i \in 1..N : z[i] = k})]

RECURSIVE GCD(_, _)
GCD(a, b) == IF b = 0 THEN a ELSE GCD(b, a % b)

\* the quotient n / m of two counts, as a fraction in lowest terms
Ratio(n, m) ==
    IF GCD(n, m) = 0 THEN <<n, m>>
    ELSE <<n \div GCD(n, m), m \div GCD(n, m)>>

\* samplers_lda.dt_comp: theta[d,k] = (n_dk + alpha) / (sum_k' n_dk + K*alpha)
samplers_dt_comp(did, nd, z, a) ==
    [d \in 0..(nd - 1) |->
        [k \in Topics |->
            Ratio(CountDK(did, nd, z)[d][k] + a,
                  Cardinality({i \in 1..Len(z) : did[i] = d}) + K * a)]]

\* samplers_lda.tt_comp: phi[w,k] = (n_kw + beta) / (n_k + V*beta)
samplers_tt_comp(z, b) ==
    [w \in 0..(V - 1) |->
        [k \in Topics |-> Ratio(CountKW(z)[k][w] + b, CountK(z)[k] + V * b)]]

\* samplers_lda.sampler rejects a non-positive hyperparameter before it
\* runs any iteration
SamplerRejects(a, b) == a <= 0 \/ b <= 0

\* the iterations one call of samplers_lda.sampler runs
TotalIterations(burnin, thinning, nsamples) == burnin + thinning * nsamples

\* a snapshot is retained after iteration it (counted from 1) when it lies
\* past the burn-in, a whole number of thinning intervals after it
Retained(it, burnin, thinning) ==
    it > burnin /\ (it - burnin) % thinning = 0

\* the sampler's state at its entry: the vector it was handed and the
\* counts of that vector
ChainStart(z) ==
    [z |-> z, n_dk |-> CountDK(docid, D, z), n_kw |-> CountKW(z), n_k |-> CountK(z)]

\* step 1 of a token update: take the token's current topic out
Decrement(c, i) ==
    [c EXCEPT !.n_dk[docid[i]][c.z[i]] = @ - 1,
              !.n_kw[c.z[i]][tokens[i]] = @ - 1,
              !.n_k[c.z[i]] = @ - 1]

\* step 2: the unnormalised conditional probability of topic k for token
\* i, as numerator and denominator
Weight(c, i, k, a, b) ==
    << (c.n_dk[docid[i]][k] + a) * (c.n_kw[k][tokens[i]] + b),
       c.n_k[k] + V * b >>

\* step 3: the topics the categorical draw can return
Draws(c, i, a, b) ==
    {k \in Topics :
        LET p == Weight(Decrement(c, i), i, k, a, b)
        IN  p[1] > 0 /\ p[2] > 0}

\* an increment that forgets the topic total
Increment_no_total(c, i, k) ==
    [c EXCEPT !.n_dk[docid[i]][k] = @ + 1,
              !.n_kw[k][tokens[i]] = @ + 1,
              !.z[i] = k]

\* step 4: put the drawn topic in, and write it to the vector in place
Increment(c, i, k) ==
    [c EXCEPT !.n_dk[docid[i]][k] = @ + 1,
              !.n_kw[k][tokens[i]] = @ + 1,
              !.n_k[k] = @ + 1,
              !.z[i] = k]

\* one token update with the draw k
TokenStep(c, i, k) == Increment(Decrement(c, i), i, k)

(***************************************************************************)
(* LDAGibbs.dt_comp and LDAGibbs.tt_comp: one slice per row.               *)
(***************************************************************************)
dt_comp(rows) == [s \in 1..Len(rows) |-> samplers_dt_comp(docid, D, rows[s], alpha)]

tt_comp(rows) == [s \in 1..Len(rows) |-> samplers_tt_comp(rows[s], beta)]

\* a concatenation that drops what was there
Concatenate_drop(old, new) == new

\* np.concatenate((old, new)) along the sample axis
Concatenate(old, new) == old \o new

(***************************************************************************)
(* The inputs the calls are given in the model.                            *)
(***************************************************************************)
\* assignment vectors a caller hands in
SeedChoices == {[i \in 1..N |-> 0], [i \in 1..N |-> i % K]}

\* set_seed(seed): an int array of shape (N,), or one of another shape
SeedInputs == SeedChoices \cup {[i \in 1..(N + 1) |-> 0]}

\* set_priors(alpha, beta): floats, or ints
PriorInputs ==
    { [float |-> TRUE,  alpha |-> 1, beta |-> 200 \div V],
      [float |-> TRUE,  alpha |-> 0, beta |-> 200 \div V],
      [float |-> FALSE, alpha |-> 1, beta |-> 1] }

\* set_sampled_topics(sampled_topics): an int array of 1, 2 or 3 dimensions;
\* rows holds the rows of the 2-d view of the data
SampledTopicsInputs ==
    {[ndim |-> 1, rows |-> <<z>>] : z \in SeedChoices}
    \cup {[ndim |-> 2, rows |-> r] :
            r \in UNION {[1..m -> SeedChoices] : m \in 1..2}}
    \cup {[ndim |-> 3, rows |-> << >>]}

\* sample(burnin, thinning, samples, append): <<burnin, thinning, samples>>
SampleArgs == { <<0, 1, 1>>, <<1, 2, 1>>, <<0, 1, 2>>, <<1, 1, 0>> }

\* samples_keep(index) with an integer index
KeepCounts == (-1)..(cap + 1)

\* samples_keep(index) with a list of positions
KeepLists == UNION {[1..m -> (-1)..cap] : m \in 1..2}

(***************************************************************************)
(* Construction, LDAGibbs.__init__.                                        *)
(***************************************************************************)
NoCall == [burnin |-> 0, thinning |-> 0, samples |-> 0, append |-> FALSE]
NoChain == << >>
NoArchive == [sampled_topics |-> << >>, tt |-> << >>, dt |-> << >>]

IdleFrame ==
    /\ pc' = "idle"
    /\ call' = NoCall
    /\ target' = 0
    /\ chain' = NoChain
    /\ iter' = 0
    /\ pos' = 0
    /\ out' = << >>
    /\ pre' = NoArchive

Done(op, outcome) ==
    /\ last' = [op |-> op, outcome |-> outcome]
    /\ raised' = (raised \/ outcome = "error")

\* no QueryGibbs object has been built
NoQuery ==
    /\ q_docs = << >> /\ q_tokens = << >> /\ q_docid = << >>
    /\ q_tt = << >>
    /\ q_alpha = 0
    /\ q_topic_seed = << >>
    /\ q_sampled_topics = << >>
    /\ q_dt = << >>
    /\ q_pc = "new"
    /\ q_s = 0 /\ q_n = 0 /\ q_left = 0 /\ q_pos = 0
    /\ q_ndk = << >>
    /\ q_seed0 = << >>
    /\ q_start = << >>
    /\ q_last = "none"

\* LDAGibbs(ds, K); bound is the bound of the model on the archive
Construct(ds, bound) ==
    /\ docs = ds
    /\ token_key \in TokenKeys(ds)
    /\ tokens = TokensOf(ds, token_key)
    /\ docid = DocIds(ds, 0)
    /\ topic_seed \in {[i \in 1..Len(DocList(ds)) |-> 0],
                       [i \in 1..Len(DocList(ds)) |-> i % K]}
    /\ alpha = 50 \div K
    /\ beta = 200 \div Cardinality(VocabOf(ds))
    /\ has_archive = FALSE
    /\ sampled_topics = << >> /\ tt = << >> /\ dt = << >>
    /\ samples = 0
    /\ pc = "idle"
    /\ call = NoCall
    /\ target = 0
    /\ chain = NoChain
    /\ iter = 0
    /\ pos = 0
    /\ out = << >>
    /\ pre = NoArchive
    /\ last = [op |-> "init", outcome |-> "ok"]
    /\ raised = FALSE
    /\ cap = bound
    /\ NoQuery

Init == Construct(SmallDocs, MaxArchive)

InitChain == Construct(ChainDocs, MaxChainArchive)

(***************************************************************************)
(* LDAGibbs.set_priors, set_seed, set_sampled_topics.                      *)
(***************************************************************************)
set_priors(p) ==
    /\ pc = "idle"
    /\ IF p.float
       THEN /\ alpha' = p.alpha
            /\ beta' = p.beta
            /\ Done("set_priors", "ok")
       ELSE /\ UNCHANGED priors
            /\ Done("set_priors", "error")
    /\ UNCHANGED <<corpus, topic_seed, archive, frame, cap, qry>>

set_seed(z) ==
    /\ pc = "idle"
    /\ IF Len(z) = N
       THEN /\ topic_seed' = z
            /\ Done("set_seed", "ok")
       ELSE /\ UNCHANGED topic_seed
            /\ Done("set_seed", "error")
    /\ UNCHANGED <<corpus, priors, archive, frame, cap, qry>>

set_sampled_topics(x) ==
    /\ pc = "idle"
    /\ Len(x.rows) <= cap
    /\ IF x.ndim <= 2
       THEN /\ sampled_topics' = x.rows
            /\ has_archive' = TRUE
            /\ samples' = Len(x.rows)
            /\ tt' = tt_comp(x.rows)
            /\ dt' = dt_comp(x.rows)
            /\ Done("set_sampled_topics", "ok")
       ELSE /\ UNCHANGED archive
            /\ Done("set_sampled_topics", "error")
    /\ UNCHANGED <<corpus, topic_seed, priors, frame, cap, qry>>

(***************************************************************************)
(* LDAGibbs.sample.  The call is split at the sampler's token updates:     *)
(* SampleBegin runs sample up to the entry of samplers_lda.sampler,        *)
(* TokenUpdate is one token update of the sampler, SampleEnd is the        *)
(* sampler's return and the rest of sample.                                *)
(***************************************************************************)
\* the row of the archive the appending branch hands to the sampler:
\* self.sampled_topics[self.samples-1, :], as a Python position
ResumeRow == PyIndex(samples - 1, Len(sampled_topics))

\* no copy: the sampler is handed self.topic_seed itself
SeedTarget_alias == 0 - 1

\* the array the other branch hands to the sampler:
\* seed = np.copy(self.topic_seed), a local array
SeedTarget == 0

\* samplers_lda.sampler is entered with the vector z of array tgt
EnterSampler(op, burnin, thinning, nsamples, append, tgt, z) ==
    /\ pc' = "sampling"
    /\ call' = [burnin |-> burnin, thinning |-> thinning,
                samples |-> nsamples, append |-> append]
    /\ target' = tgt
    /\ chain' = ChainStart(z)
    /\ iter' = 1
    /\ pos' = 0
    /\ out' = << >>
    /\ pre' = [sampled_topics |-> sampled_topics, tt |-> tt, dt |-> dt]
    /\ last' = [op |-> op, outcome |-> "running"]
    /\ UNCHANGED raised

SampleBegin(burnin, thinning, nsamples, append) ==
    /\ pc = "idle"
    /\ IF has_archive /\ append
       THEN /\ Len(sampled_topics) + nsamples <= cap
            /\ UNCHANGED archive
            /\ IF ResumeRow < 0 \/ SamplerRejects(alpha, beta)
               THEN /\ Done("sample_append", "error")
                    /\ UNCHANGED frame
               ELSE EnterSampler("sample_append", burnin, thinning, nsamples,
                                 append, ResumeRow + 1,
                                 sampled_topics[ResumeRow + 1])
       ELSE /\ nsamples <= cap
            /\ samples' = nsamples
            /\ UNCHANGED <<has_archive, sampled_topics, tt, dt>>
            /\ IF SamplerRejects(alpha, beta)
               THEN /\ Done("sample_fresh", "error")
                    /\ UNCHANGED frame
               ELSE EnterSampler("sample_fresh", burnin, thinning, nsamples,
                                 append, SeedTarget, topic_seed)
    /\ UNCHANGED <<corpus, topic_seed, priors, cap, qry>>

\* one token update of samplers_lda.sampler; the vector is updated in
\* place, in the array the sampler was handed
TokenUpdate ==
    /\ pc = "sampling"
    /\ iter <= TotalIterations(call.burnin, call.thinning, call.samples)
    /\ \E k \in Draws(chain, pos + 1, alpha, beta) :
         LET c == TokenStep(chain, pos + 1, k) IN
         /\ chain' = c
         /\ sampled_topics' =
                IF target >= 1
                THEN [sampled_topics EXCEPT ![target] = c.z]
                ELSE sampled_topics
         /\ topic_seed' = IF target = -1 THEN c.z ELSE topic_seed
         /\ IF pos + 1 = N
            THEN /\ iter' = iter + 1
                 /\ pos' = 0
                 /\ out' = IF Retained(iter, call.burnin, call.thinning)
                           THEN Append(out, c.z)
                           ELSE out
            ELSE /\ iter' = iter
                 /\ pos' = pos + 1
                 /\ out' = out
    /\ UNCHANGED <<corpus, priors, has_archive, tt, dt, samples>>
    /\ UNCHANGED <<pc, call, target, pre, last, raised, cap, qry>>

\* the sampler returns out; the rest of sample
SampleEnd ==
    /\ pc = "sampling"
    /\ iter > TotalIterations(call.burnin, call.thinning, call.samples)
    /\ IF last.op = "sample_append"
       THEN /\ sampled_topics' = Concatenate(sampled_topics, out)
            /\ tt' = Concatenate(tt, tt_comp(out))
            /\ dt' = Concatenate(dt, dt_comp(out))
            /\ samples' = samples + call.samples
            /\ UNCHANGED has_archive
       ELSE /\ sampled_topics' = out
            /\ has_archive' = TRUE
            /\ tt' = tt_comp(out)
            /\ dt' = dt_comp(out)
            /\ UNCHANGED samples
    /\ IdleFrame
    /\ Done(last.op, "ok")
    /\ UNCHANGED <<corpus, topic_seed, priors, cap, qry>>

(***************************************************************************)
(* LDAGibbs.samples_keep.                                                  *)
(***************************************************************************)
\* a stale counter: self.samples is left as it was
KeptCount_stale(index) == samples

\* self.samples = len(index)
KeptCount(index) == Len(index)

\* the body of samples_keep once index is a list of positions
KeepIndex(op, index) ==
    IF ~has_archive \/ ~TakeOk(sampled_topics, index)
    THEN /\ UNCHANGED archive
         /\ Done(op, "error")
    ELSE IF ~TakeOk(tt, index)
    THEN /\ sampled_topics' = Take(sampled_topics, index)
         /\ UNCHANGED <<has_archive, tt, dt, samples>>
         /\ Done(op, "error")
    ELSE IF ~TakeOk(dt, index)
    THEN /\ sampled_topics' = Take(sampled_topics, index)
         /\ tt' = Take(tt, index)
         /\ UNCHANGED <<has_archive, dt, samples>>
         /\ Done(op, "error")
    ELSE /\ sampled_topics' = Take(sampled_topics, index)
         /\ tt' = Take(tt, index)
         /\ dt' = Take(dt, index)
         /\ samples' = KeptCount(index)
         /\ UNCHANGED has_archive
         /\ Done(op, "ok")

\* index = range(self.samples)[-index:]
CountIndex(c) == PySliceFrom(samples, 0 - c)

samples_keep_int(c) ==
    /\ pc = "idle"
    /\ KeepIndex("samples_keep_int", CountIndex(c))
    /\ UNCHANGED <<corpus, topic_seed, priors, frame, cap, qry>>

samples_keep_list(index) ==
    /\ pc = "idle"
    /\ KeepIndex("samples_keep_list", index)
    /\ UNCHANGED <<corpus, topic_seed, priors, frame, cap, qry>>

Next ==
    \/ \E p \in PriorInputs : set_priors(p)
    \/ \E z \in SeedInputs : set_seed(z)
    \/ \E x \in SampledTopicsInputs : set_sampled_topics(x)
    \/ \E a \in SampleArgs, append \in BOOLEAN :
          SampleBegin(a[1], a[2], a[3], append)
    \/ TokenUpdate
    \/ SampleEnd
    \/ \E c \in KeepCounts : samples_keep_int(c)
    \/ \E index \in KeepLists : samples_keep_list(index)

Spec == Init /\ [][Next]_vars

\* the calls that set up and run a chain
NextChain ==
    \/ \E p \in PriorInputs : set_priors(p)
    \/ \E z \in SeedInputs : set_seed(z)
    \/ \E a \in SampleArgs, append \in BOOLEAN :
          SampleBegin(a[1], a[2], a[3], append)
    \/ TokenUpdate
    \/ SampleEnd

SpecChain == InitChain /\ [][NextChain]_vars

\* the calls that run chains and subset the archive
NextRun ==
    \/ \E p \in PriorInputs : set_priors(p)
    \/ \E a \in SampleArgs, append \in BOOLEAN :
          SampleBegin(a[1], a[2], a[3], append)
    \/ TokenUpdate
    \/ SampleEnd
    \/ \E c \in KeepCounts : samples_keep_int(c)
    \/ \E index \in KeepLists : samples_keep_list(index)

SpecRun == Init /\ [][NextRun]_vars

(***************************************************************************)
(* QueryGibbs.  samplers_lda.sampler_query is modelled from its            *)
(* description, as the sampler above: the update rule of the sampler with  *)
(* the topic-term matrix fixed, the handed vector updated in place.        *)
(***************************************************************************)
\* QueryGibbs(docs, token_key, tt): the arguments of the construction
QueryDocs == << <<"a", "c">>, <<"b">> >>
QueryKey == [t \in {"a", "b"} |-> IF t = "a" THEN 0 ELSE 1]
QueryTt ==
    << [w \in 0..1 |-> [k \in Topics |-> IF w = k THEN <<3, 4>> ELSE <<1, 4>>]],
       [w \in 0..1 |-> [k \in Topics |-> <<1, 2>>]] >>

\* keep(tokens): the tokens of the training vocabulary
Keep(d, key) == SelectSeq(d, LAMBDA t : t \in DOMAIN key)

q_N == Len(q_tokens)
q_D == Len(q_docs)
q_samples == Len(q_tt)

\* the seeds a caller hands to QueryGibbs.set_seed: arrays of shape
\* (samples, N), and one of shape (N,)
QuerySeedInputs ==
    { [ndim |-> 2, rows |-> << [i \in 1..q_N |-> 0], [i \in 1..q_N |-> i % K] >>],
      [ndim |-> 2, rows |-> << [i \in 1..q_N |-> 1] >>],
      [ndim |-> 1, rows |-> << [i \in 1..q_N |-> 1] >>] }

\* set_priors(alpha): a float, or an int
QueryPriorInputs == { [float |-> TRUE, alpha |-> 1], [float |-> FALSE, alpha |-> 1] }

\* query(query_samples)
QuerySamples == {1, 2}

\* no LDAGibbs object has been built
NoLda ==
    /\ docs = << >> /\ tokens = << >> /\ docid = << >> /\ token_key = << >>
    /\ topic_seed = << >>
    /\ alpha = 0 /\ beta = 0
    /\ has_archive = FALSE
    /\ sampled_topics = << >> /\ tt = << >> /\ dt = << >>
    /\ samples = 0
    /\ pc = "new"
    /\ call = NoCall
    /\ target = 0
    /\ chain = NoChain
    /\ iter = 0
    /\ pos = 0
    /\ out = << >>
    /\ pre = NoArchive
    /\ last = [op |-> "none", outcome |-> "ok"]
    /\ raised = FALSE
    /\ cap = 0

\* QueryGibbs.__init__
InitQuery ==
    /\ NoLda
    /\ Cardinality(DOMAIN QueryKey) = Cardinality(DOMAIN QueryTt[1])
    /\ q_docs = [d \in 1..Len(QueryDocs) |-> Keep(QueryDocs[d], QueryKey)]
    /\ q_tt = QueryTt
    /\ q_tokens = [i \in 1..Len(Chain(q_docs)) |-> QueryKey[Chain(q_docs)[i]]]
    /\ q_docid = DocIds(q_docs, 0)
    /\ q_topic_seed \in
           {[ndim |-> 1, rows |-> << z >>] :
               z \in {[i \in 1..Len(Chain(q_docs)) |-> 0],
                      [i \in 1..Len(Chain(q_docs)) |-> i % K]}}
    /\ q_alpha = 50 \div K
    /\ q_sampled_topics = << >>
    /\ q_dt = << >>
    /\ q_pc = "idle"
    /\ q_s = 0 /\ q_n = 0 /\ q_left = 0 /\ q_pos = 0
    /\ q_ndk = << >>
    /\ q_seed0 = << >>
    /\ q_start = << >>
    /\ q_last = "none"

\* QueryGibbs.set_priors
q_set_priors(p) ==
    /\ q_pc = "idle"
    /\ IF p.float
       THEN q_alpha' = p.alpha /\ q_last' = "ok"
       ELSE q_alpha' = q_alpha /\ q_last' = "error"
    /\ UNCHANGED <<q_docs, q_tokens, q_docid, q_tt>>
    /\ UNCHANGED <<lda, q_topic_seed, q_sampled_topics, q_dt, q_run>>

\* QueryGibbs.set_seed
q_set_seed(x) ==
    /\ q_pc = "idle"
    /\ IF x.ndim = 2 /\ Len(x.rows) = q_samples
          /\ \A r \in 1..Len(x.rows) : Len(x.rows[r]) = q_N
       THEN q_topic_seed' = x /\ q_last' = "ok"
       ELSE q_topic_seed' = q_topic_seed /\ q_last' = "error"
    /\ UNCHANGED <<lda, q_model, q_sampled_topics, q_dt, q_run>>

\* QueryGibbs.query up to its loop: self.sampled_topics = np.zeros(...)
QueryBegin(n) ==
    /\ q_pc = "idle"
    /\ q_sampled_topics' = [s \in 1..q_samples |-> [i \in 1..q_N |-> 0]]
    /\ q_pc' = "loop"
    /\ q_s' = 0
    /\ q_n' = n
    /\ q_seed0' = q_topic_seed
    /\ q_start' = << >>
    /\ q_last' = "running"
    /\ UNCHANGED <<lda, q_model, q_topic_seed, q_dt, q_left, q_pos, q_ndk>>

\* the array query hands to sampler_query for training sample s:
\* self.topic_seed
QueryHanded(s) == q_topic_seed

\* the loop of query enters samplers_lda.sampler_query for sample q_s; the
\* sampler takes an assignment vector, an array of one dimension
ChainBegin ==
    /\ q_pc = "loop"
    /\ q_s < q_samples
    /\ IF QueryHanded(q_s).ndim = 1
       THEN /\ q_pc' = "chain"
            /\ q_ndk' = CountDK(q_docid, q_D, QueryHanded(q_s).rows[1])
            /\ q_left' = q_n
            /\ q_pos' = 0
            /\ q_start' = Append(q_start, QueryHanded(q_s).rows[1])
            /\ UNCHANGED q_last
       ELSE /\ q_pc' = "idle"
            /\ q_last' = "query_error"
            /\ UNCHANGED <<q_ndk, q_left, q_pos, q_start>>
    /\ UNCHANGED <<lda, q_model, q_topic_seed, q_sampled_topics, q_dt>>
    /\ UNCHANGED <<q_s, q_n, q_seed0>>

\* the topics the draw of sampler_query can return for token i, once the
\* token's current topic z is taken out of the counts
QueryDraws(ndk, z, i, s) ==
    {k \in Topics :
        LET n == [ndk EXCEPT ![q_docid[i]][z] = @ - 1]
        IN  (n[q_docid[i]][k] + q_alpha) * q_tt[s + 1][q_tokens[i]][k][1] > 0}

\* one token update of sampler_query, in place in the handed vector
QueryTokenUpdate ==
    /\ q_pc = "chain"
    /\ q_left > 0
    /\ LET i == q_pos + 1
           d == q_docid[i]
           z == q_topic_seed.rows[1][i]
       IN  \E k \in QueryDraws(q_ndk, z, i, q_s) :
             /\ q_ndk' = [[q_ndk EXCEPT ![d][z] = @ - 1] EXCEPT ![d][k] = @ + 1]
             /\ q_topic_seed' = [q_topic_seed EXCEPT !.rows[1][i] = k]
             /\ IF i = q_N
                THEN q_pos' = 0 /\ q_left' = q_left - 1
                ELSE q_pos' = i /\ q_left' = q_left
    /\ UNCHANGED <<lda, q_model, q_sampled_topics, q_dt, q_last>>
    /\ UNCHANGED <<q_pc, q_s, q_n, q_seed0, q_start>>

\* sampler_query returns the vector; self.sampled_topics[s, :] = ...
ChainEnd ==
    /\ q_pc = "chain"
    /\ q_left = 0
    /\ q_sampled_topics' =
           [q_sampled_topics EXCEPT ![q_s + 1] = q_topic_seed.rows[1]]
    /\ q_s' = q_s + 1
    /\ q_pc' = "loop"
    /\ UNCHANGED <<lda, q_model, q_topic_seed, q_dt, q_last>>
    /\ UNCHANGED <<q_n, q_left, q_pos, q_ndk, q_seed0, q_start>>

\* the rest of query: self.dt
QueryEnd ==
    /\ q_pc = "loop"
    /\ q_s = q_samples
    /\ q_dt' = [s \in 1..q_samples |->
                   samplers_dt_comp(q_docid, q_D, q_sampled_topics[s], q_alpha)]
    /\ q_pc' = "idle"
    /\ q_last' = "query_ok"
    /\ UNCHANGED <<lda, q_model, q_topic_seed, q_sampled_topics>>
    /\ UNCHANGED <<q_s, q_n, q_left, q_pos, q_ndk, q_seed0, q_start>>

NextQuery ==
    \/ \E p \in QueryPriorInputs : q_set_priors(p)
    \/ \E x \in QuerySeedInputs : q_set_seed(x)
    \/ \E n \in QuerySamples : QueryBegin(n)
    \/ ChainBegin
    \/ QueryTokenUpdate
    \/ ChainEnd
    \/ QueryEnd

SpecQuery == InitQuery /\ [][NextQuery]_vars

(***************************************************************************)
(* The properties.                                                         *)
(***************************************************************************)
RECURSIVE SumOver(_, _)
SumOver(f, S) ==
    IF S = {} THEN 0
    ELSE LET x == CHOOSE y \in S : TRUE IN f[x] + SumOver(f, S \ {x})

\* the first n entries of a sequence
Prefix(a, n) == SubSeq(a, 1, n)

\* the step is the return of a sample call
SampleReturns == pc = "sampling" /\ pc' = "idle"

\* the length of the archive
L == Len(sampled_topics)

\* C1: a sample call with append=True on an archive of S snapshots leaves
\* the first S rows of sampled_topics and the first S slices of tt and dt
\* as they were before the call, and its chain starts from row S-1.
C1_AppendKeepsRetained ==
    [][ /\ (pc = "idle" /\ pc' = "sampling" /\ last'.op = "sample_append")
            => chain'.z = sampled_topics[L]
        /\ (SampleReturns /\ last'.op = "sample_append")
            => /\ Prefix(sampled_topics', Len(pre.sampled_topics))
                    = pre.sampled_topics
               /\ Prefix(tt', Len(pre.tt)) = pre.tt
               /\ Prefix(dt', Len(pre.dt)) = pre.dt ]_vars

\* C2: at every token-update boundary of a chain, for every document d the
\* counts n_dk[d, .] sum to the number of tokens of d, for every topic k
\* the counts n_kw[k, .] sum to n_k[k], and every entry of the assignment
\* vector is in 0..K-1.
C2_CountConsistency ==
    pc = "sampling" =>
        /\ \A d \in 0..(D - 1) :
              SumOver(chain.n_dk[d], Topics)
                  = Cardinality({i \in 1..N : docid[i] = d})
        /\ \A k \in Topics :
              SumOver(chain.n_kw[k], 0..(V - 1)) = chain.n_k[k]
        /\ \A i \in 1..N : chain.z[i] \in Topics

\* C2, its case: a chain past its first iteration and inside a pass over
\* the tokens, whose counts have moved away from those of the stored seed
C2_Witness ==
    /\ pc = "sampling"
    /\ iter >= 2
    /\ pos = 1
    /\ chain.n_dk /= CountDK(docid, D, topic_seed)

\* C3: a sample call that returns leaves an archive of length L + samples
\* when an archive of length L existed and append was true, and of length
\* samples otherwise.
C3_ArchiveLength ==
    [][ SampleReturns =>
            Len(sampled_topics') =
                IF has_archive /\ call.append
                THEN Len(pre.sampled_topics) + call.samples
                ELSE call.samples ]_vars

\* C3, its case: an appending call has returned on an archive that now
\* holds two snapshots, the second with estimates of its own
C3_Witness ==
    /\ last = [op |-> "sample_append", outcome |-> "ok"]
    /\ L = 2
    /\ dt[1] /= dt[2]

\* the last c entries of a sequence, in their order
LastOf(a, c) == SubSeq(a, Len(a) - c + 1, Len(a))

\* the entries of a sequence at the positions p_1..p_m (from 0)
AtPositions(a, index) == [j \in 1..Len(index) |-> a[index[j] + 1]]

\* C4: on an archive of length L, samples_keep(c) with 0 <= c <= L leaves
\* the last c snapshots in their order, and samples_keep([p_1..p_m]) with
\* every p_j in 0..L-1 leaves the snapshots p_1..p_m in that order.
C4_KeepSelects ==
    [][ /\ \A c \in 0..L :
              (has_archive /\ samples = L /\ samples_keep_int(c))
              => /\ sampled_topics' = LastOf(sampled_topics, c)
                 /\ tt' = LastOf(tt, c)
                 /\ dt' = LastOf(dt, c)
        /\ \A index \in KeepLists :
              (/\ has_archive
               /\ \A j \in 1..Len(index) : index[j] \in 0..(L - 1)
               /\ samples_keep_list(index))
              => /\ sampled_topics' = AtPositions(sampled_topics, index)
                 /\ tt' = AtPositions(tt, index)
                 /\ dt' = AtPositions(dt, index) ]_vars

\* C5: on an archive of length L, samples_keep with a count above L, a
\* negative count, or a list that holds a position outside 0..L-1 ends in
\* an error and leaves sampled_topics, tt, dt and the sample count as
\* they were.
C5_KeepRejects ==
    [][ /\ \A c \in KeepCounts :
              (has_archive /\ samples = L /\ (c > L \/ c < 0)
               /\ samples_keep_int(c))
              => (last'.outcome = "error" /\ archive' = archive)
        /\ \A index \in KeepLists :
              (/\ has_archive
               /\ \E j \in 1..Len(index) : index[j] \notin 0..(L - 1)
               /\ samples_keep_list(index))
              => (last'.outcome = "error" /\ archive' = archive) ]_vars

\* C6: whenever an iteration of the sampler has run for a sample call,
\* alpha > 0 and beta > 0, the seed has length N and entries in 0..K-1,
\* and burnin >= 0, thinning >= 1, samples >= 1.
C6_ValidatedBeforeIterating ==
    (pc = "sampling" /\ (iter > 1 \/ pos > 0)) =>
        /\ alpha > 0 /\ beta > 0
        /\ Len(topic_seed) = N
        /\ \A i \in 1..Len(topic_seed) : topic_seed[i] \in Topics
        /\ call.burnin >= 0 /\ call.thinning >= 1 /\ call.samples >= 1

\* the seed query is meant to start the chain of training sample s from
IntendedSeed(seed0, s) ==
    IF seed0.ndim = 1 THEN seed0.rows[1] ELSE seed0.rows[s]

\* C7: in QueryGibbs.query the chain of every training sample s starts
\* from the seed meant for s, whatever the chains of the other samples
\* have done, and query leaves tt and the stored seed as they were.
C7_IndependentChains ==
    /\ \A s \in 1..Len(q_start) : q_start[s] = IntendedSeed(q_seed0, s)
    /\ q_last = "query_ok" => q_topic_seed = q_seed0
    /\ q_pc /= "new" => q_tt = QueryTt

\* C8: after calls that all returned without error, self.samples is the
\* number of rows of sampled_topics and the number of slices of tt and dt.
C8_ArchiveShape ==
    (pc = "idle" /\ has_archive /\ ~raised) =>
        /\ samples = Len(sampled_topics)
        /\ samples = Len(tt)
        /\ samples = Len(dt)

\* C8, its case: samples_keep has shortened an archive
C8_Witness ==
    /\ ~raised
    /\ last = [op |-> "samples_keep_list", outcome |-> "ok"]
    /\ samples = 1

\* C9: sample and samples_keep never change topic_seed, tokens, docid or
\* the vocabulary map, and the chain of a non-appending sample call starts
\* from the content of topic_seed.
C9_SeedKept ==
    [][ /\ last'.op \in {"sample_append", "sample_fresh",
                          "samples_keep_int", "samples_keep_list"}
            => (topic_seed' = topic_seed /\ corpus' = corpus)
        /\ (pc = "idle" /\ pc' = "sampling" /\ last'.op = "sample_fresh")
            => chain'.z = topic_seed ]_vars

\* C9, its case: a non-appending call has returned with a chain that moved
\* away from the seed it started from
C9_Witness ==
    /\ last = [op |-> "sample_fresh", outcome |-> "ok"]
    /\ L >= 1
    /\ sampled_topics[L] /= topic_seed

\* the values alpha and beta take
AlphaValues == {50 \div K} \cup {p.alpha : p \in PriorInputs}
BetaValues == {200 \div V} \cup {p.beta : p \in PriorInputs}

\* C10: between calls, every slice tt[s] and dt[s] is the estimate computed
\* from the assignment stored in sampled_topics[s].
C10_SlicesAligned ==
    (pc = "idle" /\ has_archive /\ ~raised) =>
        /\ Len(tt) = L /\ Len(dt) = L
        /\ \A s \in 1..L :
              /\ \E b \in BetaValues :
                    tt[s] = samplers_tt_comp(sampled_topics[s], b)
              /\ \E a \in AlphaValues :
                    dt[s] = samplers_dt_comp(docid, D, sampled_topics[s], a)

====
